---------------------------- MODULE Spec2Model ----------------------------
(***************************************************************************)
(* Model of scriptv3.py (TerraformEnhancer): the dependency graph builder, *)
(* the reachability query, the token-budgeted prompt assembly and the      *)
(* reply extractor.                                                        *)
(*                                                                         *)
(* Paths are sequences of path segments; an absolute path starts with the  *)
(* segment "/".  str(Path) is the segment sequence itself, so two          *)
(* spellings of one file are two different graph nodes unless the code     *)
(* resolves them.                                                          *)
(***************************************************************************)
EXTENDS Integers, Sequences, FiniteSets, TLC

VARIABLES
    target_dir,   \* self.target_dir as given to the constructor
    pending,      \* files of tf_files the scan loop has not visited yet
    nodes,        \* graph.nodes of the graph under construction
    edges,        \* graph.edges of the graph under construction
    scan,         \* the file being scanned: its path, shape and modules left,
                  \* or the file whose scan just ended in an except (exc)
    graph,        \* self.graph: None, or the graph the builder returned
    pc,           \* "init", "build", "modules", "built" or "failed"
    entry_point,  \* argument of the last get_relevant_files call
    relevant,     \* its result: a set of nodes
    raised,       \* TRUE when that call raised ValueError
    cur,          \* the last builder call made on its own (SpecDep)
    content,      \* what each file of the tree holds, as far as the prompt reads it
    out,          \* what the last generate_prompt call returned
    reply,        \* the reply as its author laid it out: marker, fence, body
    response,     \* the reply text given to extract_file_content
    extracted,    \* the mapping extract_file_content returned
    debug_file,   \* what output_dir/claude_response.txt holds
    dir_exists,   \* whether output_dir exists
    written,      \* the files save_modified_code wrote: path -> content
    mode,         \* apply_changes of run and self.update_individually
    all_files,    \* argument of enhance_individual_files: the glob of line 928
    subjects,     \* files the loop of enhance_individual_files has yet to visit
    attempts,     \* the files it has visited, in order, and how each visit ended
                  \* (in batch mode: the entry, and how the one attempt ended)
    events,       \* the agent calls and the sleeps of the run, in order; in
                  \* SpecSteps, the steps of run that were carried out
    all_saved_files, \* saved_files of run: file name -> path written
    status,       \* what run returned
    env           \* what run finds: the tools installed, self.api_key set or
                  \* not, self.visualize_graph

graphVars == <<target_dir, pending, scan, nodes, edges, graph, pc, entry_point, relevant, raised, cur>>

promptVars == <<content, out>>

extractVars == <<reply, response, extracted, debug_file, dir_exists, written>>

runVars == <<mode, all_files, subjects, attempts, events, all_saved_files, status>>

\* what the graph builder and the reachability query leave alone
nonGraphVars == <<promptVars, extractVars, runVars, env>>

\* what generate_prompt leaves alone
nonPromptVars == <<graphVars, content, extractVars, runVars, env>>

\* what extract_file_content and save_modified_code leave alone
nonExtractVars == <<target_dir, pending, scan, nodes, edges, graph, entry_point, relevant, raised, cur, promptVars, runVars, env>>

\* what run and enhance_individual_files leave alone
nonRunVars == <<target_dir, pending, scan, nodes, edges, graph, entry_point, relevant, raised, cur, promptVars, env>>

vars == <<graphVars, promptVars, extractVars, runVars, env>>

-----------------------------------------------------------------------------
(* Bounds *)

\* most module declarations in one file
MaxModules == 2

\* most files in the relevant_files argument of generate_prompt
MaxCandidates == 3

\* most segments (marker and body, or prose) in a reply
MaxSegments == 2

-----------------------------------------------------------------------------
(* The file tree on disk *)

\* os.getcwd()
Cwd == <<"/", "w">>

\* the clone, as an absolute path without symlinks
RepoRoot == Cwd \o <<"repo">>

\* every regular file on disk
DiskFiles ==
    { RepoRoot \o <<"ex", "main.tf">>,
      RepoRoot \o <<"ex", ".terraform", "m.tf">>,
      RepoRoot \o <<"mx", "a.tf">>,
      RepoRoot \o <<"mx", "b.tf">>,
      RepoRoot \o <<"mx", "vars.tfvars">>,
      RepoRoot \o <<"mx", "ns", "vpc", "aws", "c.tf">> }

\* names matching the glob pattern *.tf
TfNames == {"main.tf", "m.tf", "a.tf", "b.tf", "c.tf"}

\* segments that start with a dot
DotSegs == {".", "..", ".terraform"}

\* segments that contain a colon
ColonSegs == {"git::https:", "https:"}

Parent(p) == SubSeq(p, 1, Len(p) - 1)

Prefixes(p) == { SubSeq(p, 1, k) : k \in 1..Len(p) }

\* every directory on disk
DiskDirs == UNION { Prefixes(Parent(f)) : f \in DiskFiles }

IsAbsolute(p) == Len(p) > 0 /\ p[1] = "/"

\* PurePath drops "." and empty segments when it parses or joins
RECURSIVE DropDots(_)
DropDots(p) ==
    IF p = <<>> THEN <<>>
    ELSE IF Head(p) \in {".", ""} THEN DropDots(Tail(p))
    ELSE <<Head(p)>> \o DropDots(Tail(p))

\* base / other
Join(base, other) ==
    IF IsAbsolute(other) THEN DropDots(other) ELSE base \o DropDots(other)

\* collapse the "." and ".." segments of an absolute path, left to right
RECURSIVE Collapse(_, _)
Collapse(done, rest) ==
    IF rest = <<>> THEN done
    ELSE IF Head(rest) \in {".", ""} THEN Collapse(done, Tail(rest))
    ELSE IF Head(rest) = ".."
         THEN Collapse(IF Len(done) > 1 THEN Parent(done) ELSE done, Tail(rest))
         ELSE Collapse(done \o <<Head(rest)>>, Tail(rest))

\* Path.resolve(): absolute, no "." or ".." (the tree has no symlinks)
Resolve(p) ==
    LET abs == IF IsAbsolute(p) THEN p ELSE Cwd \o p
    IN  Collapse(<<"/">>, Tail(abs))

IsDir(p) == Resolve(p) \in DiskDirs

IsFile(p) == Resolve(p) \in DiskFiles

\* root.glob("**/*.tf"): every *.tf file below root, spelled root / relative
GlobTfRecursive(root) ==
    IF ~IsDir(root) THEN {}
    ELSE { root \o SubSeq(f, Len(Resolve(root)) + 1, Len(f)) :
             f \in { g \in DiskFiles : /\ Len(g) > Len(Resolve(root))
                                       /\ SubSeq(g, 1, Len(Resolve(root))) = Resolve(root)
                                       /\ g[Len(g)] \in TfNames } }

\* dir.glob("*.tf"): the *.tf files directly in dir, spelled dir / name
GlobTf(dir) ==
    IF ~IsDir(dir) THEN {}
    ELSE { dir \o <<f[Len(f)]>> :
             f \in { g \in DiskFiles : /\ Parent(g) = Resolve(dir)
                                       /\ g[Len(g)] \in TfNames } }

\* the scan skips .terraform directories and paths with a dot-led part
Skipped(tf_file) == \E i \in 1..Len(tf_file) : tf_file[i] \in DotSegs

\* the values target_dir takes: relative (the default of --target-dir),
\* absolute, and relative through the parent directory
TargetDirs == { <<"repo">>, RepoRoot, <<"..", "w", "repo">> }

-----------------------------------------------------------------------------
(* Module declarations *)

\* a value that is not a string (hcl2 gives lists and numbers too)
NonString == <<"<nonstring>">>

\* module source strings, as segments
Sources ==
    { <<"..", "mx">>,                  \* "../mx"
      <<".", "..", "mx">>,             \* "./../mx"
      <<"..", "ex">>,                  \* "../ex"
      <<".", "ns", "vpc", "aws">>,     \* "./ns/vpc/aws"
      <<"ns", "vpc", "aws">>,          \* "ns/vpc/aws", a registry identifier
      <<"..", "">>,                    \* "../"
      <<"git::https:", "", "h", "r">>, \* "git::https://h/r"
      <<"https:", "", "h", "m">>,      \* "https://h/m"
      <<"..", "nope">> }               \* "../nope", no such directory

\* the config of a module block; its source attribute may be absent
Modules ==
    [hasSource : {TRUE}, source : Sources \cup {NonString}]
    \cup { [hasSource |-> FALSE, source |-> <<>>] }

\* the module blocks of one file in order (their names are distinct and
\* play no part)
ModuleLists == UNION { [1..n -> Modules] : n \in 0..MaxModules }

StartsWithDot(source) == Len(source) > 0 /\ source[1] \in DotSegs

StartsWithGit(source) == Len(source) > 0 /\ source[1] = "git::https:"

HasColon(source) == \E i \in 1..Len(source) : source[i] \in ColonSegs

-----------------------------------------------------------------------------
(* The dependency graph (networkx.DiGraph) *)

EmptyGraph == [nodes |-> {}, edges |-> {}]

\* graph.add_edge(u, v) for every v of targets; add_edge adds both ends
AddEdges(G, u, targets) ==
    IF targets = {} THEN G
    ELSE [nodes |-> G.nodes \cup {u} \cup targets,
          edges |-> G.edges \cup { <<u, v>> : v \in targets }]

\* the test of line 302: the source is taken for a local path
TreatedAsLocal(source) ==
    StartsWithDot(source) \/ ~(StartsWithGit(source) \/ HasColon(source))

\* _add_module_dependency: the graph after the call, and whether the call
\* raised (source.startswith on a value that is no string, outside the try)
AddModuleDependency(G, source, tf_file, file_path) ==
    IF source = NonString THEN [g |-> G, exc |-> TRUE]
    ELSE IF TreatedAsLocal(source)
    THEN LET base_dir    == Parent(tf_file)
             module_path == Resolve(Join(base_dir, source))
         IN  IF IsDir(module_path)
             THEN [g |-> AddEdges(G, file_path, GlobTf(module_path)), exc |-> FALSE]
             ELSE IF source \in { <<"..", "..", "">>, <<"..", "">> }
             THEN [g |-> AddEdges(G, file_path, GlobTf(module_path)), exc |-> FALSE]
             ELSE [g |-> G, exc |-> FALSE]
    ELSE [g |-> G, exc |-> FALSE]

\* lines 269-272, the body of the loop of _process_module_list: a module
\* without a source attribute is passed over
ListStep(G, m, tf_file, file_path) ==
    IF m.hasSource
    THEN AddModuleDependency(G, m.source, tf_file, file_path)
    ELSE [g |-> G, exc |-> FALSE]

\* lines 284-289, the body of the loop of _process_module_dict (a config
\* wrapped in a list is unwrapped first):
\* source = module_config.get("source", "")
DictStep(G, m, tf_file, file_path) ==
    AddModuleDependency(G, IF m.hasSource THEN m.source ELSE <<>>, tf_file, file_path)

\* _process_module_list: an exception ends the loop and leaves the edges
\* added so far
RECURSIVE ProcessModuleList(_, _, _, _)
ProcessModuleList(G, modules, tf_file, file_path) ==
    IF modules = <<>> THEN [g |-> G, exc |-> FALSE]
    ELSE LET r == ListStep(G, Head(modules), tf_file, file_path)
         IN  IF r.exc THEN r
             ELSE ProcessModuleList(r.g, Tail(modules), tf_file, file_path)

\* _process_module_dict
RECURSIVE ProcessModuleDict(_, _, _, _)
ProcessModuleDict(G, modules, tf_file, file_path) ==
    IF modules = <<>> THEN [g |-> G, exc |-> FALSE]
    ELSE LET r == DictStep(G, Head(modules), tf_file, file_path)
         IN  IF r.exc THEN r
             ELSE ProcessModuleDict(r.g, Tail(modules), tf_file, file_path)

\* lines 237-242: a non-empty list goes to _process_module_list, everything
\* else to _process_module_dict
TakenAsList(shape, count) == shape = "list" /\ count > 0

\* nx.descendants(G, source): breadth-first from source with a visited set;
\* the source is visited from the start and is never part of the result
RECURSIVE BfsFrom(_, _, _)
BfsFrom(G, frontier, visited) ==
    LET next == { e[2] : e \in { d \in G.edges : d[1] \in frontier } } \ visited
    IN  IF next = {} THEN visited
        ELSE BfsFrom(G, next, visited \cup next)

DescendantsMutKeepSource(G, source) ==
    { e[2] : e \in { d \in G.edges : d[1] \in BfsFrom(G, {source}, {source}) } }

Descendants(G, source) == BfsFrom(G, {source}, {source}) \ {source}

-----------------------------------------------------------------------------
(* Texts, token counts and the context blocks of generate_prompt *)

\* the try of lines 99-104 always fails ("cl100k_base" names no model), so
\* count_tokens is len(text) // 4
CharsPerToken == 4

\* count_tokens, of a text of the given length
CountTokens(len) == len \div CharsPerToken

\* the limit of line 566
SoftLimit == 80000

\* the limit of lines 632 and 654
HardLimit == 70000

\* len of the prompt of lines 571-593 around {entry_point} and {combined_context}
PromptTemplateLen == 964

\* len of a path segment
SegLen(seg) ==
    CASE seg \in {"/", ""} -> 0
      [] seg \in {"w"} -> 1
      [] seg \in {"ex", "mx", "ns", ".."} -> 2
      [] seg \in {"vpc", "aws"} -> 3
      [] seg \in {"repo", "a.tf", "b.tf", "c.tf", "m.tf", "nope"} -> 4
      [] seg \in {"main.tf", "gone.tf"} -> 7
      [] OTHER -> 10

RECURSIVE SumSegLen(_)
SumSegLen(p) == IF p = <<>> THEN 0 ELSE SegLen(Head(p)) + SumSegLen(Tail(p))

\* len(str(path)): the segments and the separators between them
StrLen(p) ==
    IF IsAbsolute(p) THEN 1 + SumSegLen(Tail(p)) + (IF Len(p) > 2 THEN Len(p) - 2 ELSE 0)
    ELSE SumSegLen(p) + (IF Len(p) > 1 THEN Len(p) - 1 ELSE 0)

\* the files generate_prompt reads in the model
PromptFiles ==
    { RepoRoot \o <<"ex", "main.tf">>, RepoRoot \o <<"mx", "a.tf">>, RepoRoot \o <<"mx", "b.tf">> }

\* what a file holds: whether open/read succeeds, whether the text is only
\* whitespace, its length, and how often the text "FILE:" occurs in it
Contents ==
    { [readable |-> FALSE, blank |-> FALSE, len |-> 0,      marks |-> 0],
      [readable |-> TRUE,  blank |-> TRUE,  len |-> 3,      marks |-> 0],
      [readable |-> TRUE,  blank |-> FALSE, len |-> 100,    marks |-> 0],
      [readable |-> TRUE,  blank |-> FALSE, len |-> 120,    marks |-> 1],
      [readable |-> TRUE,  blank |-> FALSE, len |-> 120000, marks |-> 0],
      [readable |-> TRUE,  blank |-> FALSE, len |-> 139980, marks |-> 0],
      [readable |-> TRUE,  blank |-> FALSE, len |-> 160000, marks |-> 0] }

NoContent == [f \in PromptFiles |-> [readable |-> TRUE, blank |-> TRUE, len |-> 0, marks |-> 0]]

NoPrompt == [called |-> FALSE, truncated |-> FALSE, files_to_read |-> <<>>,
             included |-> <<>>, total_tokens |-> 0, files_included |-> 0]

\* the file is read and its text passes `if content.strip()`
GivesBlock(path) ==
    /\ IsFile(path)
    /\ Resolve(path) \in PromptFiles
    /\ content[Resolve(path)].readable
    /\ ~content[Resolve(path)].blank

\* len(f"FILE: {path}\n{content}\n")
BlockLen(path) == 6 + StrLen(path) + 1 + content[Resolve(path)].len + 1

\* the occurrences of "FILE:" in the block: its header and those of the text
BlockMarks(path) == 1 + content[Resolve(path)].marks

\* lines 547-559: the blocks of code_context, as the paths they are made of
RECURSIVE CodeContext(_)
CodeContext(files) ==
    IF files = <<>> THEN <<>>
    ELSE (IF GivesBlock(Head(files)) THEN <<Head(files)>> ELSE <<>>)
         \o CodeContext(Tail(files))

RECURSIVE SumBlockLen(_)
SumBlockLen(blocks) ==
    IF blocks = <<>> THEN 0 ELSE BlockLen(Head(blocks)) + SumBlockLen(Tail(blocks))

RECURSIVE SumBlockMarks(_)
SumBlockMarks(blocks) ==
    IF blocks = <<>> THEN 0 ELSE BlockMarks(Head(blocks)) + SumBlockMarks(Tail(blocks))

\* len('\n'.join(blocks))
JoinedLen(blocks) ==
    IF blocks = <<>> THEN 0 ELSE SumBlockLen(blocks) + Len(blocks) - 1

\* len(combined_context.split("FILE:")) - 1
SplitCount(blocks) == SumBlockMarks(blocks)

\* the two loops of lines 620-661: each file that gives a block is taken
\* when it fits under the hard limit, and the loop goes on either way
RECURSIVE WalkMutBreak(_, _)
WalkMutBreak(files, current_tokens) ==
    IF files = <<>> THEN <<>>
    ELSE IF ~GivesBlock(Head(files)) THEN WalkMutBreak(Tail(files), current_tokens)
    ELSE LET file_tokens == CountTokens(BlockLen(Head(files)))
         IN  IF current_tokens + file_tokens <= HardLimit
             THEN <<Head(files)>> \o WalkMutBreak(Tail(files), current_tokens + file_tokens)
             ELSE <<>>

RECURSIVE Walk(_, _)
Walk(files, current_tokens) ==
    IF files = <<>> THEN <<>>
    ELSE IF ~GivesBlock(Head(files)) THEN Walk(Tail(files), current_tokens)
    ELSE LET file_tokens == CountTokens(BlockLen(Head(files)))
         IN  IF current_tokens + file_tokens <= HardLimit
             THEN <<Head(files)>> \o Walk(Tail(files), current_tokens + file_tokens)
             ELSE Walk(Tail(files), current_tokens)

\* [f for f in files_to_read if f != str(entry_point)]
RECURSIVE Without(_, _)
Without(files, entry) ==
    IF files = <<>> THEN <<>>
    ELSE (IF Head(files) # entry THEN <<Head(files)>> ELSE <<>>) \o Without(Tail(files), entry)

\* the order _truncate_context walks: priority_files, then other_files
WalkOrder(files_to_read, entry) == <<entry>> \o Without(files_to_read, entry)

\* _truncate_context: the blocks of truncated_context
TruncateContext(files_to_read, entry) == Walk(WalkOrder(files_to_read, entry), 0)

\* the orders list(relevant_files) can give: a set has no order
Orders(S) == { q \in [1..Cardinality(S) -> S] : \A i, j \in 1..Cardinality(S) : q[i] = q[j] => i = j }

\* the paths relevant_files is drawn from: nodes of edge targets, and a
\* path that is no file
CandidateFiles == PromptFiles \cup { RepoRoot \o <<"mx", "gone.tf">> }

-----------------------------------------------------------------------------
(* Reply texts and the regular expressions of extract_file_content *)
(*                                                                         *)
(* A text is a sequence of atoms, each a piece of text the expressions     *)
(* never match a part of: the word FILE: with its colon, a space, a        *)
(* newline, a run of three backticks (written ''' here), words, the        *)
(* extension .tf, a slash, a backslash and a colon.                        *)

Atoms == {"FILE:", " ", "\n", "'''", "hcl", "json", "x", "y", "..", ".tf", "/", "\\", ":"}

\* \s
Whitespace == {" ", "\n"}

\* the language tags of the expression of line 732, as far as the atoms go
FenceTags == {"terraform", "hcl", "tf"}

Max(S) == CHOOSE m \in S : \A n \in S : n <= m

Min(S) == CHOOSE m \in S : \A n \in S : m <= n

\* a mapping without keys, and no text
NoMap == [k \in {} |-> <<>>]

\* dict.update
Update(old, new) ==
    [k \in DOMAIN old \cup DOMAIN new |-> IF k \in DOMAIN new THEN new[k] ELSE old[k]]

\* a mapping cut down to some of its keys
Restrict(map, keys) == [k \in keys |-> map[k]]

NoText == <<"<nothing>">>

\* run not called, and not returned
NoMode == [apply_changes |-> FALSE, update_individually |-> FALSE]

NoStatus == -1

\* run not called: nothing is asked of the environment
NoEnv == [tools |-> {}, api_key |-> FALSE, visualize_graph |-> FALSE]

\* line 732, re.sub(r'```(?:terraform|hcl|tf)?\n', '', response): left to
\* right, a fence with one of the three tags or none, and its newline, go
RECURSIVE SubFenceLines(_, _)
SubFenceLines(a, i) ==
    IF i > Len(a) THEN <<>>
    ELSE IF a[i] = "'''" /\ i + 2 <= Len(a) /\ a[i + 1] \in FenceTags /\ a[i + 2] = "\n"
    THEN SubFenceLines(a, i + 3)
    ELSE IF a[i] = "'''" /\ i + 1 <= Len(a) /\ a[i + 1] = "\n"
    THEN SubFenceLines(a, i + 2)
    ELSE <<a[i]>> \o SubFenceLines(a, i + 1)

IsNotFence(x) == x # "'''"

\* line 733, re.sub(r'```', '', cleaned_response)
SubFences(a) == SelectSeq(a, IsNotFence)

\* lines 732-733
CleanResponse(a) == SubFences(SubFenceLines(a, 1))

\* the end of the whitespace run at i: the first place from i on that holds
\* no whitespace
RECURSIVE WsEnd(_, _)
WsEnd(a, i) == IF i <= Len(a) /\ a[i] \in Whitespace THEN WsEnd(a, i + 1) ELSE i

\* \s*\n at i: the place after the last newline of the whitespace run at i,
\* or 0 when the run holds no newline
AfterLastNewline(a, i) ==
    LET S == { k \in i..(WsEnd(a, i) - 1) : a[k] = "\n" }
    IN  IF S = {} THEN 0 ELSE Max(S) + 1

\* $ without re.MULTILINE: the end, or just before a newline that ends the text
AtEnd(a, q) == q = Len(a) + 1 \/ (q = Len(a) /\ a[q] = "\n")

NoMatch == [ok |-> FALSE, name |-> <<>>, body |-> <<>>, next |-> 0]

\* (.*?)(?=FILE:|$) from p: the body ends at the first FILE: or at the end
RECURSIVE BodyEnd(_, _)
BodyEnd(a, q) ==
    IF AtEnd(a, q) THEN q
    ELSE IF a[q] = "FILE:" THEN q
    ELSE BodyEnd(a, q + 1)

\* line 736, FILE:\s+(.+?\.tf)\s*\n(.*?)(?=FILE:|$) with re.DOTALL, tried
\* at i: \s+ takes the longest run that leaves a name, the name is the
\* shortest text that ends in .tf before whitespace with a newline
MatchFile(a, i) ==
    IF i > Len(a) \/ a[i] # "FILE:" THEN NoMatch
    ELSE LET j == i + 1
             k == WsEnd(a, j)
             NameEnds(g) == { e \in (g + 1)..Len(a) :
                                a[e] = ".tf" /\ AfterLastNewline(a, e + 1) > 0 }
             G == { g \in (j + 1)..k : NameEnds(g) # {} }
         IN  IF G = {} THEN NoMatch
             ELSE LET g == Max(G)
                      e == Min(NameEnds(g))
                      p == AfterLastNewline(a, e + 1)
                      q == BodyEnd(a, p)
                  IN  [ok |-> TRUE, name |-> SubSeq(a, g, e),
                       body |-> SubSeq(a, p, q - 1), next |-> q]

\* \s*[:]\s*\n after the name that ends at e: the place after the last
\* newline behind the colon, or 0 when the text there is something else
ColonLineAt(a, c) ==
    IF c <= Len(a) /\ a[c] = ":" THEN AfterLastNewline(a, c + 1) ELSE 0

ColonLineAfter(a, e) == ColonLineAt(a, WsEnd(a, e + 1))

\* [^:\n]+ from g: the first place from g on that holds a colon or a newline
RECURSIVE RunEnd(_, _)
RunEnd(a, r) ==
    IF r <= Len(a) /\ a[r] \notin {"FILE:", ":", "\n"} THEN RunEnd(a, r + 1) ELSE r

\* ([^:\n]+\.tf)\s*[:]\s*\n from g: the name is the longest text without
\* colon and newline that ends in .tf before a colon and a newline
HeaderEnds(a, g) ==
    { e \in (g + 1)..(RunEnd(a, g) - 1) : a[e] = ".tf" /\ ColonLineAfter(a, e) > 0 }

HeaderAt(a, e) == [ok |-> TRUE, e |-> e, p |-> ColonLineAfter(a, e)]

HeaderColon(a, g) ==
    IF HeaderEnds(a, g) = {} THEN [ok |-> FALSE, e |-> 0, p |-> 0]
    ELSE HeaderAt(a, Max(HeaderEnds(a, g)))

\* (.*?)(?=\n[^:\n]+\.tf\s*[:]\s*\n|$) from p
RECURSIVE BodyEndColon(_, _)
BodyEndColon(a, q) ==
    IF AtEnd(a, q) THEN q
    ELSE IF a[q] = "\n" /\ HeaderEnds(a, q + 1) # {} THEN q
    ELSE BodyEndColon(a, q + 1)

MatchFrom(a, g, e, p, q) ==
    [ok |-> TRUE, name |-> SubSeq(a, g, e), body |-> SubSeq(a, p, q - 1), next |-> q]

MatchHeader(a, g, h) ==
    IF h.ok THEN MatchFrom(a, g, h.e, h.p, BodyEndColon(a, h.p)) ELSE NoMatch

\* line 741, the second expression tried at i: (?:^|\n) is the start of the
\* text or a newline
MatchColon(a, i) ==
    IF i = 1 /\ HeaderEnds(a, 1) # {} THEN MatchHeader(a, 1, HeaderColon(a, 1))
    ELSE IF i <= Len(a) /\ a[i] = "\n" THEN MatchHeader(a, i + 1, HeaderColon(a, i + 1))
    ELSE NoMatch

Match(grammar, a, i) == IF grammar = "FILE" THEN MatchFile(a, i) ELSE MatchColon(a, i)

\* pattern.findall(text): the matches left to right, each search starting
\* where the last match ended
RECURSIVE FindAll(_, _, _)
FindAll(grammar, a, i) ==
    IF i > Len(a) + 1 THEN <<>>
    ELSE LET m == Match(grammar, a, i)
         IN  IF m.ok
             THEN <<[name |-> m.name, body |-> m.body]>>
                  \o FindAll(grammar, a, IF m.next > i THEN m.next ELSE i + 1)
             ELSE FindAll(grammar, a, i + 1)

\* lines 736-742: the FILE: grammar, and the colon grammar when it finds nothing
FileMatches(cleaned) ==
    LET primary == FindAll("FILE", cleaned, 1)
    IN  IF primary # <<>> THEN primary ELSE FindAll("colon", cleaned, 1)

\* str.strip()
RECURSIVE Strip(_)
Strip(a) ==
    IF a = <<>> THEN <<>>
    ELSE IF Head(a) \in Whitespace THEN Strip(Tail(a))
    ELSE IF a[Len(a)] \in Whitespace THEN Strip(SubSeq(a, 1, Len(a) - 1))
    ELSE a

Has(a, x) == \E i \in 1..Len(a) : a[i] = x

\* os.path.basename (posixpath): what follows the last slash
Basename(a) ==
    LET S == { i \in 1..Len(a) : a[i] = "/" }
    IN  IF S = {} THEN a ELSE SubSeq(a, Max(S) + 1, Len(a))

\* lines 747 and 757-758
CleanFilenameMutKeepPath(filename) == Strip(filename)

CleanFilename(filename) ==
    LET clean_filename == Strip(filename)
    IN  IF Has(clean_filename, "/") \/ Has(clean_filename, "\\")
        THEN Basename(clean_filename)
        ELSE clean_filename

\* lines 745-760: extracted_files[clean_filename] = clean_content for the
\* first n matches in order, a later match replacing an earlier one
RECURSIVE ExtractedFiles(_, _)
ExtractedFiles(matches, n) ==
    IF n = 0 THEN NoMap
    ELSE LET before == ExtractedFiles(matches, n - 1)
             key    == CleanFilename(matches[n].name)
         IN  [k \in DOMAIN before \cup {key} |->
                IF k = key THEN Strip(matches[n].body) ELSE before[k]]

\* the mapping extract_file_content returns for a response
ExtractFileContent(resp) ==
    LET matches == FileMatches(CleanResponse(resp))
    IN  ExtractedFiles(matches, Len(matches))

-----------------------------------------------------------------------------
(* build_dependency_graph and get_relevant_files *)

NoCall == [op |-> "none", tf_file |-> <<>>, source |-> <<>>, mods |-> <<>>]

NoGraph == [isNone |-> TRUE, nodes |-> {}, edges |-> {}]

NoScan == [tf_file |-> <<>>, shape |-> "none", left |-> 0, exc |-> FALSE]

\* the scan of tf_file ended in the except of line 244 or 246
Caught(tf_file) == [tf_file |-> tf_file, shape |-> "none", left |-> 0, exc |-> TRUE]

NoEntry == <<"<none>">>

\* an entry that names no file of the tree
AbsentEntry == <<"nope", "main.tf">>

InitBuild ==
    /\ target_dir \in TargetDirs
    /\ pending = {}
    /\ scan = NoScan
    /\ nodes = {}
    /\ edges = {}
    /\ graph = NoGraph
    /\ pc = "init"
    /\ entry_point = NoEntry
    /\ relevant = {}
    /\ raised = FALSE
    /\ cur = NoCall
    /\ content = NoContent
    /\ out = NoPrompt
    /\ reply = <<>>
    /\ response = <<>>
    /\ extracted = NoMap
    /\ debug_file = NoText
    /\ dir_exists = FALSE
    /\ written = NoMap
    /\ mode = NoMode
    /\ all_files = <<>>
    /\ subjects = <<>>
    /\ attempts = <<>>
    /\ events = <<>>
    /\ all_saved_files = NoMap
    /\ status = NoStatus
    /\ env = NoEnv

\* lines 211-218: a fresh graph, and the files the glob enumerates
StartBuild ==
    /\ pc = "init"
    /\ pending' = GlobTfRecursive(target_dir)
    /\ nodes' = {}
    /\ edges' = {}
    /\ pc' = "build"
    /\ UNCHANGED <<target_dir, scan, graph, entry_point, relevant, raised, cur, nonGraphVars>>

\* lines 219-242: the scan loop takes the file the glob gives next, skips
\* it or adds its node, and parses it; the parse fails, or gives the module
\* collection in one of the two shapes with 0..MaxModules modules
ScanFile ==
    /\ pc = "build"
    /\ \E tf_file \in pending :
         /\ pending' = pending \ {tf_file}
         /\ IF Skipped(tf_file)
            THEN scan' = NoScan /\ UNCHANGED <<nodes, edges, pc>>
            ELSE /\ nodes' = nodes \cup {tf_file}
                 /\ edges' = edges
                 /\ \E ok \in BOOLEAN, shape \in {"list", "dict"}, count \in 0..MaxModules :
                      IF ok /\ count > 0
                      THEN /\ scan' = [tf_file |-> tf_file,
                                       shape |-> IF TakenAsList(shape, count)
                                                 THEN "list" ELSE "dict",
                                       left |-> count, exc |-> FALSE]
                           /\ pc' = "modules"
                      ELSE \* open or hcl2.load raises, or [].items() does; a
                           \* dict without modules raises nothing
                           /\ scan' = IF ok /\ shape = "dict" THEN NoScan
                                      ELSE Caught(tf_file)
                           /\ pc' = pc
    /\ UNCHANGED <<target_dir, graph, entry_point, relevant, raised, cur, nonGraphVars>>

\* one turn of the loop of _process_module_list or _process_module_dict for
\* the file being scanned; an exception leaves the loop and is caught at
\* line 244
ProcessModule ==
    /\ pc = "modules"
    /\ \E m \in Modules :
         LET G == [nodes |-> nodes, edges |-> edges]
             r == IF scan.shape = "list"
                  THEN ListStep(G, m, scan.tf_file, scan.tf_file)
                  ELSE DictStep(G, m, scan.tf_file, scan.tf_file)
         IN  /\ nodes' = r.g.nodes
             /\ edges' = r.g.edges
             /\ IF r.exc
                THEN scan' = Caught(scan.tf_file) /\ pc' = "build"
                ELSE IF scan.left = 1
                THEN scan' = NoScan /\ pc' = "build"
                ELSE scan' = [scan EXCEPT !.left = @ - 1] /\ pc' = pc
    /\ UNCHANGED <<target_dir, pending, graph, entry_point, relevant, raised, cur, nonGraphVars>>

\* lines 249-256: the loop is over, self.graph = graph
BuildDone ==
    /\ pc = "build"
    /\ pending = {}
    /\ graph' = [isNone |-> FALSE, nodes |-> nodes, edges |-> edges]
    /\ scan' = NoScan
    /\ pc' = "built"
    /\ UNCHANGED <<target_dir, pending, nodes, edges, entry_point, relevant, raised, cur, nonGraphVars>>

\* the entries get_relevant_files is called with
EntryArgs == graph.nodes \cup { Join(target_dir, <<"ex", "main.tf">>), AbsentEntry }

\* get_relevant_files(entry_point): `not self.graph` holds for None and for
\* a graph without nodes, and the ValueError ends the caller
GetRelevantFiles ==
    /\ pc \in {"init", "built"}
    /\ \E entry \in EntryArgs :
         /\ entry_point' = entry
         /\ IF graph.isNone \/ graph.nodes = {}
            THEN /\ raised' = TRUE
                 /\ relevant' = {}
                 /\ pc' = "failed"
            ELSE /\ raised' = FALSE
                 /\ relevant' = IF entry \notin graph.nodes THEN {}
                                ELSE Descendants(graph, entry)
                 /\ pc' = pc
    /\ UNCHANGED <<target_dir, pending, scan, nodes, edges, graph, cur, nonGraphVars>>

NextBuild == StartBuild \/ ScanFile \/ ProcessModule \/ BuildDone \/ GetRelevantFiles

SpecBuild == InitBuild /\ [][NextBuild]_vars

-----------------------------------------------------------------------------
(* The builder's methods, each called once on a fresh graph *)

\* the files the scan passes to the builder's methods
ScannedFiles == { f \in GlobTfRecursive(target_dir) : ~Skipped(f) }

InitDep ==
    /\ target_dir \in TargetDirs
    /\ pending = {}
    /\ scan = NoScan
    /\ nodes = {}
    /\ edges = {}
    /\ graph = NoGraph
    /\ pc = "dep"
    /\ entry_point = NoEntry
    /\ relevant = {}
    /\ raised = FALSE
    /\ cur = NoCall
    /\ content = NoContent
    /\ out = NoPrompt
    /\ reply = <<>>
    /\ response = <<>>
    /\ extracted = NoMap
    /\ debug_file = NoText
    /\ dir_exists = FALSE
    /\ written = NoMap
    /\ mode = NoMode
    /\ all_files = <<>>
    /\ subjects = <<>>
    /\ attempts = <<>>
    /\ events = <<>>
    /\ all_saved_files = NoMap
    /\ status = NoStatus
    /\ env = NoEnv

\* _add_module_dependency(graph, source, tf_file, str(tf_file))
CallAddModuleDependency ==
    /\ pc = "dep"
    /\ cur.op = "none"
    /\ \E tf_file \in ScannedFiles, source \in Sources :
         LET r == AddModuleDependency([nodes |-> nodes, edges |-> edges],
                                      source, tf_file, tf_file)
         IN  /\ nodes' = r.g.nodes
             /\ edges' = r.g.edges
             /\ cur' = [op |-> "add", tf_file |-> tf_file, source |-> source,
                        mods |-> <<>>]
    /\ UNCHANGED <<target_dir, pending, scan, graph, pc, entry_point, relevant, raised, nonGraphVars>>

\* _process_module_list(graph, modules, tf_file, str(tf_file))
CallProcessModuleList ==
    /\ pc = "dep"
    /\ cur.op = "none"
    /\ \E tf_file \in ScannedFiles, modules \in ModuleLists :
         LET r == ProcessModuleList([nodes |-> nodes, edges |-> edges],
                                    modules, tf_file, tf_file)
         IN  /\ nodes' = r.g.nodes
             /\ edges' = r.g.edges
             /\ cur' = [op |-> "list", tf_file |-> tf_file, source |-> <<>>,
                        mods |-> modules]
    /\ UNCHANGED <<target_dir, pending, scan, graph, pc, entry_point, relevant, raised, nonGraphVars>>

\* _process_module_dict(graph, modules, tf_file, str(tf_file))
CallProcessModuleDict ==
    /\ pc = "dep"
    /\ cur.op = "none"
    /\ \E tf_file \in ScannedFiles, modules \in ModuleLists :
         LET r == ProcessModuleDict([nodes |-> nodes, edges |-> edges],
                                    modules, tf_file, tf_file)
         IN  /\ nodes' = r.g.nodes
             /\ edges' = r.g.edges
             /\ cur' = [op |-> "dict", tf_file |-> tf_file, source |-> <<>>,
                        mods |-> modules]
    /\ UNCHANGED <<target_dir, pending, scan, graph, pc, entry_point, relevant, raised, nonGraphVars>>

NextDep == CallAddModuleDependency \/ CallProcessModuleList \/ CallProcessModuleDict

SpecDep == InitDep /\ [][NextDep]_vars

-----------------------------------------------------------------------------
(* generate_prompt *)

InitPrompt ==
    /\ target_dir \in { <<"repo">>, RepoRoot }
    /\ pending = {}
    /\ scan = NoScan
    /\ nodes = {}
    /\ edges = {}
    /\ graph = NoGraph
    /\ pc = "prompt"
    /\ entry_point = Join(target_dir, <<"ex", "main.tf">>)
    /\ relevant \in { S \in SUBSET (CandidateFiles \ {entry_point}) : Cardinality(S) <= MaxCandidates }
    /\ raised = FALSE
    /\ cur = NoCall
    /\ content \in [PromptFiles -> Contents]
    /\ out = NoPrompt
    /\ reply = <<>>
    /\ response = <<>>
    /\ extracted = NoMap
    /\ debug_file = NoText
    /\ dir_exists = FALSE
    /\ written = NoMap
    /\ mode = NoMode
    /\ all_files = <<>>
    /\ subjects = <<>>
    /\ attempts = <<>>
    /\ events = <<>>
    /\ all_saved_files = NoMap
    /\ status = NoStatus
    /\ env = NoEnv

\* generate_prompt(entry_point, relevant_files), lines 541-597
GeneratePrompt ==
    /\ pc = "prompt"
    /\ ~out.called
    /\ \E order \in Orders(relevant) :
         LET files_to_read  == <<entry_point>> \o order
             code_context   == CodeContext(files_to_read)
             token_estimate == CountTokens(JoinedLen(code_context))
             truncated      == token_estimate > SoftLimit
             blocks         == IF truncated
                               THEN TruncateContext(files_to_read, entry_point)
                               ELSE code_context
             files_included == IF truncated THEN SplitCount(blocks) ELSE Len(code_context)
             prompt_len     == PromptTemplateLen + StrLen(entry_point) + JoinedLen(blocks)
         IN  out' = [called |-> TRUE, truncated |-> truncated,
                     files_to_read |-> files_to_read, included |-> blocks,
                     total_tokens |-> CountTokens(prompt_len),
                     files_included |-> files_included]
    /\ UNCHANGED nonPromptVars

NextPrompt == GeneratePrompt

SpecPrompt == InitPrompt /\ [][NextPrompt]_vars

-----------------------------------------------------------------------------
(* extract_file_content and save_modified_code *)

\* self.output_dir, a path of one segment; a segment here is a text
OutputDir == << <<"out">> >>

\* the file names a marker gives
NameA == <<"x", ".tf">>
NameB == <<"y", ".tf">>
NameSub == <<"x", "/", "x", "/", "y", ".tf">>
NameUp == <<"..", "/", "x", ".tf">>
NameAbs == <<"/", "x", ".tf">>
NameBackslash == <<"x", "\\", "y", ".tf">>

Names == {NameA, NameB, NameSub, NameUp, NameAbs, NameBackslash}

\* file bodies: one line, two lines with an indented one, and a line with
\* the word FILE: in its middle
BodyLine == <<"x">>
BodyLines == <<"x", "\n", " ", "y">>
BodyFileWord == <<"x", " ", "FILE:", " ", "y">>

\* the segments of a reply: how the file is announced ("FILE" for a
\* FILE: line, "colon" for name and colon, "none" for prose), its name,
\* the fence around its body and the body
Segments ==
    [marker : {"FILE"}, name : Names, fence : {"none"}, body : {BodyLine}]
    \cup [marker : {"FILE"}, name : {NameA, NameB}, fence : {"bare", "hcl", "json"}, body : {BodyLines}]
    \cup [marker : {"FILE"}, name : {NameA}, fence : {"none", "hcl"}, body : {BodyFileWord}]
    \cup [marker : {"colon"}, name : {NameA, NameSub}, fence : {"none"}, body : {BodyLine}]
    \cup [marker : {"none"}, name : {NameA}, fence : {"none"}, body : {BodyLine}]

Replies == UNION { [1..n -> Segments] : n \in 0..MaxSegments }

FenceOpen(fence) ==
    CASE fence = "none" -> <<>>
      [] fence = "bare" -> <<"'''", "\n">>
      [] OTHER          -> <<"'''", fence, "\n">>

FenceClose(fence) == IF fence = "none" THEN <<>> ELSE <<"\n", "'''">>

\* the text of one segment
Render(seg) ==
    LET header == CASE seg.marker = "FILE"  -> <<"FILE:", " ">> \o seg.name \o <<"\n">>
                    [] seg.marker = "colon" -> seg.name \o <<":", "\n">>
                    [] OTHER                -> <<>>
    IN  header \o FenceOpen(seg.fence) \o seg.body \o FenceClose(seg.fence) \o <<"\n">>

\* the text of a reply
RECURSIVE RenderReply(_)
RenderReply(r) == IF r = <<>> THEN <<>> ELSE Render(Head(r)) \o RenderReply(Tail(r))

\* the segments of a path text between its slashes, as pathlib parses it
RECURSIVE PathSegments(_)
PathSegments(a) ==
    IF a = <<>> THEN <<>>
    ELSE IF Head(a) = "/" THEN PathSegments(Tail(a))
    ELSE LET S == { i \in 1..Len(a) : a[i] = "/" }
             n == IF S = {} THEN Len(a) + 1 ELSE Min(S)
         IN  <<SubSeq(a, 1, n - 1)>> \o PathSegments(SubSeq(a, n, Len(a)))

\* line 789, self.output_dir / filename: an absolute filename replaces the
\* left side
OutputFile(filename) ==
    IF filename # <<>> /\ Head(filename) = "/"
    THEN << <<"/">> >> \o PathSegments(filename)
    ELSE OutputDir \o PathSegments(filename)

\* line 768, f.write(response): the text the debug file gets
DebugTextMutCleaned(resp) == CleanResponse(resp)

DebugText(resp) == resp

\* lines 788-792: the files on disk after every file of the mapping is
\* written
WriteAll(disk, file_content_map) ==
    Update(disk, [p \in { OutputFile(k) : k \in DOMAIN file_content_map } |->
                    file_content_map[CHOOSE k \in DOMAIN file_content_map : OutputFile(k) = p]])

InitExtract ==
    /\ target_dir = <<"repo">>
    /\ pending = {}
    /\ scan = NoScan
    /\ nodes = {}
    /\ edges = {}
    /\ graph = NoGraph
    /\ pc = "reply"
    /\ entry_point = NoEntry
    /\ relevant = {}
    /\ raised = FALSE
    /\ cur = NoCall
    /\ content = NoContent
    /\ out = NoPrompt
    /\ reply \in Replies
    /\ response = RenderReply(reply)
    /\ extracted = NoMap
    /\ debug_file = NoText
    /\ dir_exists \in BOOLEAN
    /\ written = NoMap
    /\ mode = NoMode
    /\ all_files = <<>>
    /\ subjects = <<>>
    /\ attempts = <<>>
    /\ events = <<>>
    /\ all_saved_files = NoMap
    /\ status = NoStatus
    /\ env = NoEnv

\* extract_file_content(response), lines 729-771: open() of the debug file
\* raises when output_dir does not exist
CallExtractFileContent ==
    /\ pc = "reply"
    /\ extracted' = ExtractFileContent(response)
    /\ IF DOMAIN extracted' # {}
       THEN pc' = "extracted" /\ UNCHANGED debug_file
       ELSE IF dir_exists
       THEN pc' = "extracted" /\ debug_file' = DebugText(response)
       ELSE pc' = "raised" /\ UNCHANGED debug_file
    /\ UNCHANGED <<reply, response, dir_exists, written, nonExtractVars>>

\* save_modified_code(file_content_map), lines 784-797, with the mapping
\* extract_file_content returned
SaveModifiedCode ==
    /\ pc = "extracted"
    /\ dir_exists' = TRUE
    /\ written' = WriteAll(written, extracted)
    /\ pc' = "saved"
    /\ UNCHANGED <<reply, response, extracted, debug_file, nonExtractVars>>

NextExtract == CallExtractFileContent \/ SaveModifiedCode

SpecExtract == InitExtract /\ [][NextExtract]_vars

-----------------------------------------------------------------------------
(* run and enhance_individual_files *)

\* most .tf files the example directory of a run holds
MaxSubjects == 2

\* self.example_dir of the run, and its .tf files; the entry is main.tf
ExampleDir == <<"repo", "example">>

ExampleFiles ==
    { ExampleDir \o <<name>> : name \in {"main.tf", "outputs.tf", "variables.tf"} }

\* line 928, list(self.example_dir.glob("*.tf")): the files there, main.tf
\* among them, in the order the directory gives them
GlobOrders ==
    UNION { Orders(S) : S \in { T \in SUBSET ExampleFiles :
                                  /\ ExampleDir \o <<"main.tf">> \in T
                                  /\ Cardinality(T) <= MaxSubjects } }

\* the replies the agent gives in a run: none that can be extracted (a
\* fenced block without a marker, and nothing at all), and files under
\* their markers
RunReplies ==
    { <<>>,
      << [marker |-> "none", name |-> NameA, fence |-> "hcl", body |-> BodyLine] >>,
      << [marker |-> "FILE", name |-> NameA, fence |-> "none", body |-> BodyLine] >>,
      << [marker |-> "FILE", name |-> NameB, fence |-> "hcl", body |-> BodyLines] >>,
      << [marker |-> "FILE", name |-> NameSub, fence |-> "none", body |-> BodyLine],
         [marker |-> "FILE", name |-> NameA, fence |-> "none", body |-> BodyLine] >> }

\* lines 788-794: saved_files, file name -> output_file
SavedFiles(file_content_map) == [k \in DOMAIN file_content_map |-> OutputFile(k)]

\* the loop of lines 836-878 goes on with the next file however the visit
\* of this one ended
RemainingMutStopOnFailure(files, outcome) ==
    IF outcome = "saved" THEN Tail(files) ELSE <<>>

Remaining(files, outcome) == Tail(files)

InitRun ==
    /\ target_dir = <<"repo">>
    /\ pending = {}
    /\ scan = NoScan
    /\ nodes = {}
    /\ edges = {}
    /\ graph = NoGraph
    /\ pc = "run"
    /\ entry_point = ExampleDir \o <<"main.tf">>
    /\ relevant = {}
    /\ raised = FALSE
    /\ cur = NoCall
    /\ content = NoContent
    /\ out = NoPrompt
    /\ reply = <<>>
    /\ response = <<>>
    /\ extracted = NoMap
    /\ debug_file = NoText
    /\ dir_exists \in BOOLEAN
    /\ written = NoMap
    /\ mode \in [apply_changes : BOOLEAN, update_individually : BOOLEAN]
    /\ all_files = <<>>
    /\ subjects = <<>>
    /\ attempts = <<>>
    /\ events = <<>>
    /\ all_saved_files = NoMap
    /\ status = NoStatus
    /\ env = NoEnv

\* run, lines 894-931: the steps up to the choice of the mode; any of them
\* may raise, which the except of line 976 turns into status 1
RunSetup ==
    /\ pc = "run"
    /\ \E ok \in BOOLEAN :
         IF ~ok
         THEN /\ status' = 1
              /\ pc' = "returned"
              /\ UNCHANGED <<dir_exists, all_files, subjects>>
         ELSE IF ~mode.apply_changes
         THEN /\ status' = 0
              /\ pc' = "returned"
              /\ UNCHANGED <<dir_exists, all_files, subjects>>
         ELSE /\ dir_exists' = TRUE
              /\ status' = status
              /\ IF mode.update_individually
                 THEN /\ all_files' \in GlobOrders
                      /\ subjects' = <<entry_point>> \o Without(all_files', entry_point)
                      /\ pc' = "loop"
                 ELSE /\ UNCHANGED <<all_files, subjects>>
                      /\ pc' = "batch"
    /\ UNCHANGED <<reply, response, extracted, debug_file, written, mode, attempts, events,
                   all_saved_files, nonRunVars>>

\* one visit of the loop is over: it is recorded, and the loop goes on
Visited(outcome) ==
    /\ attempts' = Append(attempts, [file |-> Head(subjects), outcome |-> outcome])
    /\ subjects' = Remaining(subjects, outcome)

\* one turn of the loop of enhance_individual_files, lines 836-878: the file
\* is skipped (837, 852), or the agent is called; the call raises, or its
\* reply is extracted and, when that gives files, saved; whatever is raised
\* from line 858 on is caught at line 877
ProcessFile ==
    /\ pc = "loop"
    /\ subjects # <<>>
    /\ \/ /\ \E outcome \in {"skipped", "no_prompt"} : Visited(outcome)
          /\ UNCHANGED <<reply, response, extracted, debug_file, written, events, all_saved_files>>
       \/ /\ Visited("agent_raised")
          /\ events' = Append(events, "call")
          /\ UNCHANGED <<reply, response, extracted, debug_file, written, all_saved_files>>
       \/ /\ reply' \in RunReplies
          /\ response' = RenderReply(reply')
          /\ extracted' = ExtractFileContent(response')
          /\ IF DOMAIN extracted' = {}
             THEN /\ IF dir_exists
                     THEN debug_file' = DebugText(response') /\ Visited("empty")
                     ELSE debug_file' = debug_file /\ Visited("extract_raised")
                  /\ events' = Append(events, "call")
                  /\ UNCHANGED <<written, all_saved_files>>
             ELSE \/ /\ written' = WriteAll(written, extracted')
                     /\ all_saved_files' = Update(all_saved_files, SavedFiles(extracted'))
                     /\ events' = events \o <<"call", "sleep">>
                     /\ Visited("saved")
                     /\ UNCHANGED debug_file
                  \/ \E done \in (SUBSET DOMAIN extracted') \ {DOMAIN extracted'} :
                       /\ written' = WriteAll(written, Restrict(extracted', done))
                       /\ events' = Append(events, "call")
                       /\ Visited("save_error")
                       /\ UNCHANGED <<debug_file, all_saved_files>>
    /\ UNCHANGED <<pc, dir_exists, mode, all_files, status, nonRunVars>>

\* lines 880 and 951-974: the loop is over, run has saved_files and returns
LoopReturn ==
    /\ pc = "loop"
    /\ subjects = <<>>
    /\ status' = IF DOMAIN all_saved_files = {} THEN 1 ELSE 0
    /\ pc' = "returned"
    /\ UNCHANGED <<extractVars, mode, all_files, subjects, attempts, events, all_saved_files, nonRunVars>>

\* lines 934-953 and 974-978, one prompt for all files: what the agent call
\* or the save raises ends run with status 1 at line 976
Batch ==
    /\ pc = "batch"
    /\ events' = Append(events, "call")
    /\ \/ /\ attempts' = Append(attempts, [file |-> entry_point, outcome |-> "agent_raised"])
          /\ status' = 1
          /\ UNCHANGED <<reply, response, extracted, debug_file, written, all_saved_files>>
       \/ /\ reply' \in RunReplies
          /\ response' = RenderReply(reply')
          /\ extracted' = ExtractFileContent(response')
          /\ \/ /\ written' = WriteAll(written, extracted')
                /\ all_saved_files' = SavedFiles(extracted')
                /\ IF DOMAIN extracted' = {}
                   THEN /\ debug_file' = DebugText(response')
                        /\ attempts' = Append(attempts, [file |-> entry_point, outcome |-> "empty"])
                        /\ status' = 1
                   ELSE /\ debug_file' = debug_file
                        /\ attempts' = Append(attempts, [file |-> entry_point, outcome |-> "saved"])
                        /\ status' = 0
             \/ \E done \in (SUBSET DOMAIN extracted') \ {DOMAIN extracted'} :
                  /\ written' = WriteAll(written, Restrict(extracted', done))
                  /\ attempts' = Append(attempts, [file |-> entry_point, outcome |-> "save_error"])
                  /\ status' = 1
                  /\ UNCHANGED <<debug_file, all_saved_files>>
    /\ pc' = "returned"
    /\ UNCHANGED <<dir_exists, mode, all_files, subjects, nonRunVars>>

NextRun == RunSetup \/ ProcessFile \/ LoopReturn \/ Batch

SpecRun == InitRun /\ [][NextRun]_vars

\* the program runs on: a step that can be taken is taken
SpecRunFair == SpecRun /\ WF_vars(NextRun)

-----------------------------------------------------------------------------
(* The steps of run before the agent work, lines 894-921 *)

\* line 134: for dep in ["git", "terraform"]
RequiredTools == <<"git", "terraform">>

\* the steps of run that read or build the graph
CoreWork == {"build_dependency_graph", "get_relevant_files", "visualize_dependency_graph"}

InitSteps ==
    /\ target_dir = <<"repo">>
    /\ pending = {}
    /\ scan = NoScan
    /\ nodes = {}
    /\ edges = {}
    /\ graph = NoGraph
    /\ pc = "check_dependencies"
    /\ entry_point = NoEntry
    /\ relevant = {}
    /\ raised = FALSE
    /\ cur = NoCall
    /\ content = NoContent
    /\ out = NoPrompt
    /\ reply = <<>>
    /\ response = <<>>
    /\ extracted = NoMap
    /\ debug_file = NoText
    /\ dir_exists = FALSE
    /\ written = NoMap
    /\ mode \in [apply_changes : BOOLEAN, update_individually : BOOLEAN]
    /\ all_files = <<>>
    /\ subjects = <<>>
    /\ attempts = <<>>
    /\ events = <<>>
    /\ all_saved_files = NoMap
    /\ status = NoStatus
    /\ env \in [tools : SUBSET {"git", "terraform"}, api_key : BOOLEAN,
                 visualize_graph : BOOLEAN]

\* the step was carried out and run goes on with the next one
Done(step, next) ==
    /\ events' = Append(events, step)
    /\ pc' = next
    /\ UNCHANGED status

\* the step raised: the except of line 976 returns 1
Fails ==
    /\ status' = 1
    /\ pc' = "returned"
    /\ UNCHANGED events

\* check_dependencies, lines 134-144: RuntimeError for the first tool whose
\* --version cannot be run
CheckDependencies ==
    /\ pc = "check_dependencies"
    /\ IF \E i \in 1..Len(RequiredTools) : RequiredTools[i] \notin env.tools
       THEN Fails
       ELSE Done("check_dependencies", "clone_repository")
    /\ UNCHANGED <<extractVars, mode, all_files, subjects, attempts, all_saved_files, nonRunVars>>

\* clone_repository, lines 158-179: the clone may fail, the example path may
\* be missing
CloneRepository ==
    /\ pc = "clone_repository"
    /\ \/ Done("clone_repository", "init_terraform")
       \/ Fails
    /\ UNCHANGED <<extractVars, mode, all_files, subjects, attempts, all_saved_files, nonRunVars>>

\* init_terraform, lines 190-200
InitTerraform ==
    /\ pc = "init_terraform"
    /\ \/ Done("init_terraform", "build_dependency_graph")
       \/ Fails
    /\ UNCHANGED <<extractVars, mode, all_files, subjects, attempts, all_saved_files, nonRunVars>>

\* line 904; the builder catches what its scan raises
BuildDependencyGraph ==
    /\ pc = "build_dependency_graph"
    /\ Done("build_dependency_graph", "get_relevant_files")
    /\ UNCHANGED <<extractVars, mode, all_files, subjects, attempts, all_saved_files, nonRunVars>>

\* lines 907-911: the entry may be missing, get_relevant_files may raise
RelevantFiles ==
    /\ pc = "get_relevant_files"
    /\ \/ Done("get_relevant_files",
               IF env.visualize_graph THEN "visualize_dependency_graph" ELSE "apply_changes")
       \/ Fails
    /\ UNCHANGED <<extractVars, mode, all_files, subjects, attempts, all_saved_files, nonRunVars>>

\* lines 914-915
Visualize ==
    /\ pc = "visualize_dependency_graph"
    /\ \/ Done("visualize_dependency_graph", "apply_changes")
       \/ Fails
    /\ UNCHANGED <<extractVars, mode, all_files, subjects, attempts, all_saved_files, nonRunVars>>

\* lines 918-924 and 971-974: without apply_changes run returns 0; without
\* the key it raises ValueError; else the output directory is made and the
\* agent work starts
ApplyChanges ==
    /\ pc = "apply_changes"
    /\ IF ~mode.apply_changes
       THEN /\ status' = 0
            /\ pc' = "returned"
            /\ UNCHANGED <<events, dir_exists>>
       ELSE IF ~env.api_key
       THEN Fails /\ UNCHANGED dir_exists
       ELSE Done("mkdir", "agent") /\ dir_exists' = TRUE
    /\ UNCHANGED <<reply, response, extracted, debug_file, written, mode, all_files, subjects,
                   attempts, all_saved_files, nonRunVars>>

NextSteps ==
    \/ CheckDependencies
    \/ CloneRepository
    \/ InitTerraform
    \/ BuildDependencyGraph
    \/ RelevantFiles
    \/ Visualize
    \/ ApplyChanges

SpecSteps == InitSteps /\ [][NextSteps]_vars

-----------------------------------------------------------------------------
(* Claims about the graph *)

\* the transitive closure of a set of edges, by composing it with itself
RECURSIVE TransitiveClosure(_)
TransitiveClosure(R) ==
    LET R2 == R \cup UNION { { <<e[1], f[2]>> : f \in { h \in R : h[1] = e[2] } } : e \in R }
    IN  IF R2 = R THEN R ELSE TransitiveClosure(R2)

\* C1: for an entry that is a node of the built graph, get_relevant_files
\* returns exactly the nodes reachable from it by one or more edges, without
\* the entry itself, also when the graph has cycles
C1_ReachableSet ==
    (pc = "built" /\ ~raised /\ entry_point \in graph.nodes)
        => relevant = { n \in graph.nodes :
                          <<entry_point, n>> \in TransitiveClosure(graph.edges) }
                      \ {entry_point}

\* a query answered on a cycle through the entry, with a node that is
\* reached only through another node
C1_Witness ==
    /\ pc = "built" /\ ~raised /\ entry_point \in graph.nodes
    /\ <<entry_point, entry_point>> \in TransitiveClosure(graph.edges)
    /\ <<entry_point, entry_point>> \notin graph.edges
    /\ \E n \in relevant : <<entry_point, n>> \notin graph.edges

\* C2: in the built graph each file on disk has one node: two nodes that
\* name the same file are the same node
C2_OneNodePerFile ==
    pc = "built" =>
        \A n1 \in graph.nodes, n2 \in graph.nodes :
            Resolve(n1) = Resolve(n2) => n1 = n2

\* the sources the claim calls remote: git:: prefix, scheme-qualified,
\* registry identifier
RemoteSources ==
    { <<"git::https:", "", "h", "r">>, <<"https:", "", "h", "m">>, <<"ns", "vpc", "aws">> }

\* the *.tf files directly in the directory a local source names, seen from
\* the directory of the referencing file
DirectFilesOf(tf_file, source) ==
    LET dir == Resolve(Parent(tf_file) \o source)
    IN  { f \in DiskFiles : Parent(f) = dir /\ f[Len(f)] \in TfNames }

\* C9: _add_module_dependency adds no edge for a remote source, and for a
\* local source one edge to each *.tf file directly in the directory
C9_RemoteNoEdgeLocalDirect ==
    [][ (cur'.op = "add" /\ cur.op = "none") =>
          IF cur'.source \in RemoteSources
          THEN edges' = edges
          ELSE edges' = edges \cup { <<cur'.tf_file, f>> :
                                       f \in DirectFilesOf(cur'.tf_file, cur'.source) } ]_vars

\* C10: the edges added for a file do not depend on the shape that carried
\* its modules: the list processing and the mapping processing of the same
\* modules give the same edges
C10_ShapesAgree ==
    [][ (cur'.op \in {"list", "dict"} /\ cur.op = "none") =>
          LET G == [nodes |-> nodes, edges |-> edges]
          IN  ProcessModuleList(G, cur'.mods, cur'.tf_file, cur'.tf_file).g.edges
              = ProcessModuleDict(G, cur'.mods, cur'.tf_file, cur'.tf_file).g.edges ]_vars

\* the edges one module declaration gives on its own, in either shape
EdgesOfModule(op, m, tf_file) ==
    IF op = "list" THEN ListStep(EmptyGraph, m, tf_file, tf_file).g.edges
    ELSE DictStep(EmptyGraph, m, tf_file, tf_file).g.edges

\* C11: a file whose reading, parsing or module processing raised is a node
\* and has no outgoing edge (edges are never removed, so neither has it in
\* the returned graph), and the scan goes on: every enumerated file that is
\* not skipped is a node of the returned graph.
C11_FailedFileKeptWithoutEdges ==
    /\ scan.exc => /\ scan.tf_file \in nodes
                   /\ ~\E e \in edges : e[1] = scan.tf_file
    /\ pc = "built" => ScannedFiles \subseteq graph.nodes

\* C12: a module reference that fails to resolve gives no edge and stops
\* nothing: after _process_module_list or _process_module_dict the graph
\* holds the edges of every declaration of the file, those before and those
\* after the failing one.
C12_FailureStaysWithItsReference ==
    cur.op \in {"list", "dict"} =>
        edges = UNION { EdgesOfModule(cur.op, cur.mods[i], cur.tf_file) : i \in 1..Len(cur.mods) }

\* C13: after build_dependency_graph, get_relevant_files with an entry that
\* is no node of the graph returns the empty set and does not raise,
\* whatever graph the builder returned.
C13_AbsentEntryGivesEmptySet ==
    (~graph.isNone /\ entry_point # NoEntry /\ entry_point \notin graph.nodes)
        => (~raised /\ relevant = {})

-----------------------------------------------------------------------------
(* Claims about the prompt *)

Range(q) == { q[i] : i \in 1..Len(q) }

\* the tokens of the blocks taken among the first k files of the walk
RECURSIVE TakenTokens(_, _, _)
TakenTokens(walk, k, taken) ==
    IF k = 0 THEN 0
    ELSE TakenTokens(walk, k - 1, taken)
         + (IF walk[k] \in taken THEN CountTokens(BlockLen(walk[k])) ELSE 0)

\* the place of a path in a sequence without repeats (0 when absent)
IndexIn(q, x) == IF x \in Range(q) THEN CHOOSE i \in 1..Len(q) : q[i] = x ELSE 0

\* C3: in truncation mode the files are walked entry first, then the
\* candidates in their order; a file that gives a block is in the context if
\* and only if the running total of the blocks taken before it plus its own
\* tokens is at most the hard limit, wherever it stands in the walk (a
\* skipped file does not end the walk); files that give no block are left out
C3_BestEffortFill ==
    (out.called /\ out.truncated) =>
        LET walk  == out.files_to_read
            taken == Range(out.included)
        IN  /\ \A i \in 1..Len(walk) :
                 IF GivesBlock(walk[i])
                 THEN (walk[i] \in taken) <=>
                      (TakenTokens(walk, i - 1, taken) + CountTokens(BlockLen(walk[i]))
                         <= HardLimit)
                 ELSE walk[i] \notin taken
            /\ \A a, b \in 1..Len(out.included) :
                 a < b => IndexIn(walk, out.included[a]) < IndexIn(walk, out.included[b])

\* truncation mode where a file was skipped for the limit and a later file
\* was still taken
C3_Witness ==
    /\ out.called /\ out.truncated
    /\ LET walk == out.files_to_read
       IN  \E i, j \in 1..Len(walk) :
             /\ i < j
             /\ GivesBlock(walk[i]) /\ walk[i] \notin Range(out.included)
             /\ walk[j] \in Range(out.included)

\* C4: the numbers generate_prompt returns are exact for the bundle: the
\* inclusion count is the number of blocks in it and the token total is the
\* count of those blocks
C4_ExactTotals ==
    out.called =>
        /\ out.files_included = Len(out.included)
        /\ out.total_tokens = CountTokens(JoinedLen(out.included))

\* the bundle generate_prompt builds when list(relevant_files) gives order
BundleOf(order) ==
    LET files_to_read == <<entry_point>> \o order
        code_context  == CodeContext(files_to_read)
    IN  IF CountTokens(JoinedLen(code_context)) > SoftLimit
        THEN TruncateContext(files_to_read, entry_point)
        ELSE code_context

\* C14: the bundle depends on the entry, the candidate set and the file
\* contents only: whatever order the candidate set is iterated in, the same
\* files are included in the same order, with and without truncation.
C14_BundleIndependentOfOrder ==
    out.called => \A order \in Orders(relevant) : BundleOf(order) = out.included

\* C15: without truncation the bundle holds every file that is read and is
\* not only whitespace exactly once, the entry's block first and the
\* candidates in their given order, and no block for any other file.
C15_UnboundedBundleComplete ==
    (out.called /\ ~out.truncated) =>
        LET inc  == out.included
            read == out.files_to_read
        IN  /\ \A i \in 1..Len(inc) : GivesBlock(inc[i])
            /\ \A f \in { Resolve(read[i]) : i \in { j \in 1..Len(read) : GivesBlock(read[j]) } } :
                 Cardinality({ i \in 1..Len(inc) : Resolve(inc[i]) = f }) = 1
            /\ GivesBlock(entry_point) => inc[1] = entry_point
            /\ \A a, b \in 1..Len(inc) :
                 a < b => IndexIn(read, inc[a]) < IndexIn(read, inc[b])

-----------------------------------------------------------------------------
(* Claims about the reply extractor *)

Returned == pc \in {"extracted", "saved"}

\* no later segment of the reply announces a file with the key of segment i
LastWithKey(i) == \A j \in (i + 1)..Len(reply) : Basename(reply[j].name) # Basename(reply[i].name)

\* a reply of fenced file bodies, each under a line FILE: <name>.tf, no
\* name twice
FencedReply ==
    /\ reply # <<>>
    /\ \A i \in 1..Len(reply) :
         /\ reply[i].marker = "FILE"
         /\ reply[i].fence # "none"
         /\ reply[i].name \in {NameA, NameB}
         /\ LastWithKey(i)

\* C5: for a reply of fenced file bodies, each preceded by a marker line
\* FILE: <name>.tf, the mapping's keys are exactly the marker file names and
\* each value is the content inside that file's fence, trimmed, with no
\* fence text left.
C5_FencedRoundTrip ==
    (Returned /\ FencedReply) =>
        /\ DOMAIN extracted = { reply[i].name : i \in 1..Len(reply) }
        /\ \A i \in 1..Len(reply) : extracted[reply[i].name] = Strip(reply[i].body)

\* what a fence delimiter line is made of; no name and no body of Segments
\* holds any of it
FenceText == {"'''", "hcl", "json"}

\* C6: every fence opening with its language tag, whatever the tag, and
\* every closing fence is removed: no backticks and no language tag of a
\* fence line appear in any extracted content.
C6_NoFenceText ==
    Returned => \A k \in DOMAIN extracted :
                  \A j \in 1..Len(extracted[k]) : extracted[k][j] \notin FenceText

\* a reply in the primary grammar whose fences the expression of line 732
\* knows
PrimaryReply ==
    /\ reply # <<>>
    /\ \A i \in 1..Len(reply) : reply[i].marker = "FILE" /\ reply[i].fence # "json"

\* C7: under the primary grammar the reply is split only at the marker
\* lines FILE: <path>.tf: every marker gives a segment, and its content is
\* all the text between its marker line and the next marker line or the
\* end, so the whole body the marker announces.
C7_SplitOnlyAtMarkerLines ==
    (Returned /\ PrimaryReply) =>
        /\ DOMAIN extracted = { Basename(reply[i].name) : i \in 1..Len(reply) }
        /\ \A i \in 1..Len(reply) :
             LastWithKey(i) => extracted[Basename(reply[i].name)] = Strip(reply[i].body)

\* C8: every key of the returned mapping is a bare file name without a
\* directory component, and every file save_modified_code writes is a direct
\* child of the output directory.
C8_BareKeysDirectChildren ==
    /\ \A k \in DOMAIN extracted : k # <<>> /\ k # <<"..">> /\ ~Has(k, "/")
    /\ \A p \in DOMAIN written :
         /\ Len(p) = Len(OutputDir) + 1
         /\ SubSeq(p, 1, Len(OutputDir)) = OutputDir
         /\ p[Len(p)] # <<"..">>

\* a marker with directory components was extracted and its file saved
C8_Witness ==
    /\ pc = "saved"
    /\ \E i \in 1..Len(reply) :
         /\ reply[i].marker = "FILE"
         /\ reply[i].name \in {NameSub, NameUp, NameAbs}
         /\ OutputDir \o <<Basename(reply[i].name)>> \in DOMAIN written

-----------------------------------------------------------------------------
(* Claims about run and the per-file loop *)

\* the files the loop is to visit: the entry, then the other files of the
\* glob in its order
Plan == <<entry_point>> \o Without(all_files, entry_point)

AttemptFiles == [i \in 1..Len(attempts) |-> attempts[i].file]

\* the step ended an attempt with the given outcome
Ended(outcome) ==
    /\ Len(attempts') = Len(attempts) + 1
    /\ attempts'[Len(attempts')].outcome = outcome

\* C16: when the extraction of a reply ends with an empty mapping, the debug
\* file holds the reply as it came, nothing is saved and nothing recorded
\* for that attempt, and in batch mode run returns 1.
C16_EmptyExtractionKeptAndNoSuccess ==
    [][ Ended("empty") =>
          /\ DOMAIN extracted' = {}
          /\ debug_file' = response'
          /\ all_saved_files' = all_saved_files
          /\ written' = written
          /\ (pc' = "returned" => status' = 1) ]_vars

\* a fenced reply without a marker was extracted to nothing and is in the
\* debug file with its fences
C16_Witness ==
    /\ attempts # <<>>
    /\ attempts[Len(attempts)].outcome = "empty"
    /\ debug_file = response
    /\ CleanResponse(response) # response

\* C17: extract_file_content returns for every reply and every state of the
\* output directory, and what it returns is a function of the reply alone.
C17_ExtractTotalAndDeterministic ==
    (pc # "reply") => (pc # "raised" /\ extracted = ExtractFileContent(response))

\* C18: in the per-file loop a failed visit is absorbed: the visits made
\* and the files still to visit are always the entry and then the other
\* files in their order, each once; what was saved for earlier files stays
\* in the map; and the loop comes to its end, with every file visited.
C18_LoopAbsorbsFailures ==
    /\ [](pc = "loop" => AttemptFiles \o subjects = Plan)
    /\ []((pc = "returned" /\ all_files # <<>>) => AttemptFiles = Plan)
    /\ [](\A i, j \in 1..Len(attempts) : attempts[i].file = attempts[j].file => i = j)
    /\ [][ \A k \in DOMAIN all_saved_files :
              k \in DOMAIN all_saved_files' /\ all_saved_files'[k] = all_saved_files[k] ]_vars
    /\ (pc = "loop" ~> (pc = "returned" /\ subjects = <<>>))

\* a loop that saved for its first file, failed on a later one and returned
\* with the first file's artifacts
C18_Witness ==
    /\ pc = "returned"
    /\ Len(attempts) >= 2
    /\ attempts[1].outcome = "saved"
    /\ \E i \in 2..Len(attempts) :
         attempts[i].outcome \in {"no_prompt", "agent_raised", "empty", "save_error"}
    /\ DOMAIN all_saved_files # {}

\* C19: between any two agent calls of a run there is a sleep, however the
\* earlier call ended.
C19_DelayAfterEveryCall ==
    \A i, j \in 1..Len(events) :
        (i < j /\ events[i] = "call" /\ events[j] = "call")
            => \E k \in (i + 1)..(j - 1) : events[k] = "sleep"

\* C20: run returns 0 only when the run wrote at least one file.
C20_SuccessNeedsArtifact ==
    (pc = "returned" /\ status = 0) => DOMAIN written # {}

-----------------------------------------------------------------------------
(* Claims about the build and the query, end to end *)

\* the edges of the built graph as references between files on disk
FileEdges == { <<Resolve(e[1]), Resolve(e[2])>> : e \in graph.edges }

\* the files referenced from file f through one or more module declarations
ReferencedFrom(f) == { g \in DiskFiles : <<f, g>> \in TransitiveClosure(FileEdges) }

\* C22: after the build, for an entry named as the scan enumerated it,
\* get_relevant_files returns the files referenced from the entry through
\* one or more local module declarations (the entry itself apart): a file
\* declared by a file the entry declares is in the result.
C22_EndToEndTransitive ==
    (pc = "built" /\ ~raised /\ entry_point \in ScannedFiles)
        => { Resolve(n) : n \in relevant } \ {Resolve(entry_point)}
             = ReferencedFrom(Resolve(entry_point)) \ {Resolve(entry_point)}

-----------------------------------------------------------------------------
(* Claims about the size of the truncated context *)

\* C23: in truncation mode the context _truncate_context returns, its blocks
\* joined with newlines, counts at most 70000 tokens by count_tokens.
C23_TruncatedContextWithinLimit ==
    (out.called /\ out.truncated) => CountTokens(JoinedLen(out.included)) <= HardLimit

-----------------------------------------------------------------------------
(* Claims about the steps of run *)

\* a tool is missing, or changes are asked for without the key
MissingCapability ==
    \/ \E i \in 1..Len(RequiredTools) : RequiredTools[i] \notin env.tools
    \/ mode.apply_changes /\ ~env.api_key

\* C21: when a required tool or, with apply_changes, the API key is missing,
\* run returns 1 and none of its steps built the graph, resolved the
\* relevant files or drew the graph before that.
C21_MissingCapabilityFailsFirst ==
    MissingCapability =>
        /\ \A i \in 1..Len(events) : events[i] \notin CoreWork
        /\ (pc = "returned" => status = 1)

=============================================================================
